---- MODULE Spec2Model ----
(***************************************************************************)
(* State-machine model of docker-lib.js (ApiExtensionInstallerDocker), the *)
(* current revision (src/docker-lib.js lines 1-452).                       *)
(*                                                                         *)
(* JavaScript strings that the code parses or concatenates (repo names,    *)
(* repo:tag references, paths, bind-mount entries) are sequences of        *)
(* one-character strings, so that split / indexOf / substring / includes   *)
(* are computed as the code computes them.  Strings that are only compared *)
(* (lifecycle states, architectures) are TLA+ strings.                      *)
(*                                                                         *)
(* Every asynchronous daemon or filesystem call is one step: the step that *)
(* runs the call's completion callback.  The daemon's or filesystem's      *)
(* effect and answer are taken at that step.                               *)
(***************************************************************************)
EXTENDS Integers, Sequences, FiniteSets, TLC

VARIABLES
    docker_version,  \* module variable docker_version (line 20)
    installed,       \* module variable installed: name -> tag (line 21)
    states,          \* module variable states: name -> lifecycle string (line 22)
    image_config,    \* image.config of every descriptor object the host holds
    containers,      \* daemon: containers by name
    images,          \* daemon: repo:tag references of the local images
    dirs,            \* filesystem: existing directories
    files,           \* filesystem: existing files and their contents
    bind_props,      \* the bind_props objects the host holds, by reference
    ops,             \* operations of the adapter: position and locals
    ncalls           \* number of install/update calls made so far

vars == <<docker_version, installed, states, image_config, containers, images,
          dirs, files, bind_props, ops, ncalls>>

(***************************************************************************)
(* Bounds                                                                  *)
(***************************************************************************)
\* install and update calls in one behaviour (each grows the shared config)
MaxCalls == 2

(***************************************************************************)
(* JavaScript values                                                       *)
(***************************************************************************)
\* the value undefined where a string (sequence of characters) is expected
Undefined == <<"undefined">>

\* no error: the callback's err argument is undefined or null
NoError == <<>>

\* JS truthiness of a string value: undefined and "" are falsy
Truthy(v) == v # Undefined /\ v # <<>>

\* the characters of a string
Chars(str) == [i \in 1..Len(str) |-> SubSeq(str, i, i)]

RECURSIVE Text(_)
\* the string a sequence of characters spells
Text(seq) == IF seq = <<>> THEN "" ELSE Head(seq) \o Text(Tail(seq))

\* the properties every plain object ({}) inherits from Object.prototype
ObjectPrototype ==
    {"constructor", "__defineGetter__", "__defineSetter__", "hasOwnProperty",
     "__lookupGetter__", "__lookupSetter__", "isPrototypeOf", "propertyIsEnumerable",
     "toString", "valueOf", "__proto__", "toLocaleString"}

ProtoKeys == {Chars(p) : p \in ObjectPrototype}

\* the key whose assignment sets the prototype and adds no property
ProtoKey == Chars("__proto__")

\* an inherited property's value, held as the text String() gives for it:
\* obj.__proto__ is Object.prototype, every other one is a native function
InheritedText(p) ==
    IF p = "__proto__" THEN "[object Object]"
    ELSE IF p = "constructor" THEN "function Object() { [native code] }"
    ELSE "function " \o p \o "() { [native code] }"

\* obj[key] of a JS object held as a function: an own property, else one
\* inherited from Object.prototype, else undefined
Get(obj, key) ==
    IF key \in DOMAIN obj THEN obj[key]
    ELSE IF key \in ProtoKeys THEN Chars(InheritedText(Text(key)))
    ELSE Undefined

\* states[name]
GetState(obj, key) ==
    IF key \in DOMAIN obj THEN obj[key]
    ELSE IF key \in ProtoKeys THEN InheritedText(Text(key))
    ELSE "undefined"

\* obj[key] = value on a plain object; obj.__proto__ = value adds no property
\* (a string or undefined is ignored, Object.prototype is the prototype already)
Put(obj, key, value) ==
    IF key = ProtoKey THEN obj
    ELSE [k \in DOMAIN obj \cup {key} |-> IF k = key THEN value ELSE obj[k]]

\* an entry added to a table of the daemon or of the filesystem
Store(map, key, value) ==
    [k \in DOMAIN map \cup {key} |-> IF k = key THEN value ELSE map[k]]

\* String(undefined) as used by string concatenation
ToStr(v) == IF v = Undefined THEN <<"u","n","d","e","f","i","n","e","d">> ELSE v

\* a + b where at least one operand is a string; undefined + undefined is
\* the number NaN, which a later concatenation spells "NaN"
Plus(a, b) ==
    IF a = Undefined /\ b = Undefined THEN <<"N","a","N">> ELSE ToStr(a) \o ToStr(b)

(***************************************************************************)
(* String primitives                                                       *)
(***************************************************************************)
RECURSIVE IndexFrom(_, _, _)
\* first index >= i (1-based) of character ch in s, 0 when there is none
IndexFrom(s, ch, i) ==
    IF i > Len(s) THEN 0
    ELSE IF s[i] = ch THEN i
    ELSE IndexFrom(s, ch, i + 1)

\* s.indexOf(ch): 0-based, -1 when absent
indexOf(s, ch) == IndexFrom(s, ch, 1) - 1

RECURSIVE LastIndexFrom(_, _, _)
LastIndexFrom(s, ch, i) ==
    IF i < 1 THEN 0
    ELSE IF s[i] = ch THEN i
    ELSE LastIndexFrom(s, ch, i - 1)

\* s.lastIndexOf(ch): 0-based, -1 when absent
lastIndexOf(s, ch) == LastIndexFrom(s, ch, Len(s)) - 1

\* s.substring(0, end): a negative end is taken as 0
substring0(s, end) == IF end <= 0 THEN <<>> ELSE SubSeq(s, 1, IF end > Len(s) THEN Len(s) ELSE end)

RECURSIVE split(_, _)
\* s.split(ch) for a one-character separator
split(s, ch) ==
    LET i == IndexFrom(s, ch, 1)
    IN  IF i = 0 THEN <<s>>
        ELSE <<SubSeq(s, 1, i - 1)>> \o split(SubSeq(s, i + 1, Len(s)), ch)

\* s.replace(ch, ''): removes the first occurrence only
replaceFirst(s, ch) ==
    LET i == IndexFrom(s, ch, 1)
    IN  IF i = 0 THEN s ELSE SubSeq(s, 1, i - 1) \o SubSeq(s, i + 1, Len(s))

\* s.includes(sub)
includes(s, sub) ==
    \E i \in 0..(Len(s) - Len(sub)) : SubSeq(s, i + 1, i + Len(sub)) = sub

\* the outcome of a function that throws a TypeError instead of returning
TypeError == [threw |-> "TypeError"]

\* _split(repo_tag) (lines 427-450); undefined has no split method (line 428)
_split(repo_tag) ==
    IF repo_tag = Undefined THEN TypeError
    ELSE LET fields == split(repo_tag, ":")
             repo   == split(fields[1], "/")
         IN  [full_repo |-> fields[1],
              username  |-> IF Len(repo) > 1 THEN repo[1] ELSE Undefined,
              repo      |-> IF Len(repo) > 1 THEN repo[2] ELSE repo[1],
              tag       |-> IF Len(fields) > 1 THEN fields[2] ELSE Undefined]

\* get_name(image) (lines 75-77)
get_name(image) ==
    IF _split(image.repo) = TypeError THEN TypeError ELSE _split(image.repo).repo

(***************************************************************************)
(* Inputs: image descriptors, bind properties, install options             *)
(***************************************************************************)
\* container configuration object (image.config, info.Config); an absent
\* list or map is held as the empty one, which the code creates on first use
EmptyConfig ==
    [name |-> Undefined, Image |-> Undefined, Env |-> <<>>, Devices |-> <<>>,
     Binds |-> <<>>, Volumes |-> {}]

\* the image descriptors the plugin host may pass to install
Descriptors ==
    <<  \* 1: namespaced repo, two absolute binds
        [repo |-> <<"u","/","a">>, tags |-> [amd64 |-> <<"1">>], has_binds |-> TRUE,
         binds |-> << <<"/","d","/","f">>, <<"/","g">> >>, config |-> EmptyConfig],
        \* 2: relative binds declared first and last, an absolute one between
        [repo |-> <<"b">>, tags |-> [amd64 |-> <<"2">>], has_binds |-> TRUE,
         binds |-> << <<"r">>, <<"/","g">>, <<"s">> >>, config |-> EmptyConfig],
        \* 3: only a relative bind, and a bind-mount entry already in the config
        [repo |-> <<"b">>, tags |-> [amd64 |-> <<"2">>], has_binds |-> TRUE,
         binds |-> << <<"r">> >>,
         config |-> [EmptyConfig EXCEPT !.Binds = << <<"/","x",":","/","x">> >>]],
        \* 4: no tag for the daemon's architecture
        [repo |-> <<"a">>, tags |-> [arm |-> <<"1">>], has_binds |-> TRUE,
         binds |-> << <<"/","g">> >>, config |-> EmptyConfig],
        \* 5: no binds property
        [repo |-> <<"a">>, tags |-> [amd64 |-> <<"1">>], has_binds |-> FALSE,
         binds |-> <<>>, config |-> EmptyConfig],
        \* 6: an empty bind list
        [repo |-> <<"a">>, tags |-> [amd64 |-> <<"1">>], has_binds |-> TRUE,
         binds |-> <<>>, config |-> EmptyConfig],
        \* 7: one absolute bind
        [repo |-> <<"a">>, tags |-> [amd64 |-> <<"1">>], has_binds |-> TRUE,
         binds |-> << <<"/","g">> >>, config |-> EmptyConfig]
    >>

DescIds == DOMAIN Descriptors

\* image.tags[arch]
TagFor(d, arch) ==
    IF arch \in DOMAIN Descriptors[d].tags THEN Descriptors[d].tags[arch]
    ELSE IF arch \in ObjectPrototype THEN Chars(InheritedText(arch))
    ELSE Undefined

\* a bind_props object {name, root, binds_path} as the host builds it; install
\* adds the property volume (line 134), undefined when has_volume is FALSE
BindProps1 ==
    [name |-> <<"m">>, root |-> <<"/","r">>, binds_path |-> <<"/","p">>,
     has_volume |-> FALSE, volume |-> [source |-> <<>>, name |-> <<>>]]

\* the bind_props objects of the host: install gets a reference to one of
\* them, or undefined (reference 0)
HostBindProps == <<BindProps1>>

NoBindProps == 0

BindPropsSet == {NoBindProps} \cup DOMAIN HostBindProps

\* the volume _get_volume hands its callback when it found none: undefined
NoVolume == [found |-> FALSE, source |-> <<>>, name |-> <<>>]

\* options: undefined, or {env, devices}
NoOptions == [set |-> FALSE, env |-> <<>>, devices |-> <<>>]

Options1 ==
    [set |-> TRUE, env |-> << [name |-> <<"K">>, value |-> <<"v">>] >>,
     devices |-> << <<"/","t">> >>]

OptionsSet == {NoOptions, Options1}

\* names the host may pass to the name-taking operations
Names == { <<"a">>, <<"b">>, <<"u","/","a">> }

(***************************************************************************)
(* Daemon and filesystem answers                                           *)
(***************************************************************************)
\* docker.version() answers: an error, a version without Version, a foreign OS, linux
VersionAnswers ==
    { [err |-> TRUE,  Version |-> <<>>, Os |-> "linux", Arch |-> "amd64"],
      [err |-> FALSE, Version |-> <<>>, Os |-> "linux", Arch |-> "amd64"],
      [err |-> FALSE, Version |-> <<"1","9">>, Os |-> "windows", Arch |-> "amd64"],
      [err |-> FALSE, Version |-> <<"1","9">>, Os |-> "linux", Arch |-> "amd64"] }

NoVersion == [err |-> TRUE, Version |-> <<>>, Os |-> "", Arch |-> "undefined"]

\* error values handed to callbacks
ErrDaemon(call)  == <<"daemon error", call>>
ErrFs(call)      == <<"fs error", call>>
ErrNotFound      == <<"no such container">>
ErrNoArch(arch)  == <<"No image available for architecture", arch>>
ErrDockerMissing == <<"Docker not found">>
ErrHostOs(os)    == <<"Host OS not supported", os>>

\* the sibling container's mount that lies at the bind root
SiblingMount == [Destination |-> <<"/","r">>, Source |-> <<"/","v">>, Name |-> <<"v","o","l">>]

\* a mount elsewhere
OtherMount == [Destination |-> <<"/","o">>, Source |-> <<"/","w">>, Name |-> <<"w">>]

\* the lifecycle strings the daemon reports for a container
DaemonStates == {"created", "restarting", "running", "removing", "paused", "exited", "dead"}

\* a container as the daemon holds it
Container(state, image, config, mounts) ==
    [State |-> state, Image |-> image, Config |-> config, Mounts |-> mounts]

(***************************************************************************)
(* Operations in flight                                                    *)
(***************************************************************************)
\* an operation slot: op is the adapter method, pc the pending asynchronous
\* call whose callback runs next ("done": the completion callback has run;
\* "dropped": nothing is pending and the callback was never invoked;
\* "threw": the method or one of its callbacks threw)
IdleOp ==
    [op |-> "none", pc |-> "idle", name |-> <<>>, desc |-> 0, bp |-> NoBindProps,
     volume |-> NoVolume, full_volume_name |-> <<>>,
     count |-> 0, repo_tag |-> <<>>, own_config |-> FALSE, config |-> EmptyConfig,
     scoped |-> FALSE, imgs |-> <<>>, cb_count |-> 0, cb_err |-> NoError,
     cb_val |-> Undefined, cb_map |-> <<>>, trace |-> <<>>, made |-> {},
     ret |-> [state |-> "undefined", version |-> Undefined, tag |-> Undefined,
              logging |-> Undefined]]

\* no callback of the operation is pending
Free(s) == ops[s].pc \in {"idle", "done", "dropped", "threw"}

\* a new operation started on a free slot
NewOp(op, pc, call) == [IdleOp EXCEPT !.op = op, !.pc = pc, !.trace = <<call>>]

\* the operation issues the asynchronous call `call` and waits for it
Issue(o, pc, call) == [o EXCEPT !.pc = pc, !.trace = Append(@, call)]

\* cb && cb(err, val)
Complete(o, err, val) ==
    [o EXCEPT !.pc = "done", !.cb_count = @ + 1, !.cb_err = err, !.cb_val = val]

\* cb && cb(err, installed): the whole install record is handed over
CompleteMap(o, err, map) ==
    [o EXCEPT !.pc = "done", !.cb_count = @ + 1, !.cb_err = err, !.cb_map = map]

\* the configuration object the operation works on: image.config of the
\* descriptor (install), or the object built from the inspect answer (update)
Cfg(o) == IF o.own_config THEN o.config ELSE image_config[o.desc]

(***************************************************************************)
(* _query_installs (lines 361-413) and _get_containers (lines 415-425)     *)
(***************************************************************************)
\* the lower-case letter of every upper-case letter
LowerCase ==
    [c \in {"A", "B", "C", "D", "E", "F", "G", "H", "I", "J", "K", "L", "M", "N",
            "O", "P", "Q", "R", "S", "T", "U", "V", "W", "X", "Y", "Z"} |->
        CASE c = "A" -> "a" [] c = "B" -> "b" [] c = "C" -> "c" [] c = "D" -> "d"
          [] c = "E" -> "e" [] c = "F" -> "f" [] c = "G" -> "g" [] c = "H" -> "h"
          [] c = "I" -> "i" [] c = "J" -> "j" [] c = "K" -> "k" [] c = "L" -> "l"
          [] c = "M" -> "m" [] c = "N" -> "n" [] c = "O" -> "o" [] c = "P" -> "p"
          [] c = "Q" -> "q" [] c = "R" -> "r" [] c = "S" -> "s" [] c = "T" -> "t"
          [] c = "U" -> "u" [] c = "V" -> "v" [] c = "W" -> "w" [] c = "X" -> "x"
          [] c = "Y" -> "y" [] c = "Z" -> "z"]

RECURSIVE LowerFrom(_, _)
\* the characters of st from position i on, each letter in lower case
LowerFrom(st, i) ==
    IF i > Len(st) THEN ""
    ELSE LET c == SubSeq(st, i, i)
         IN  (IF c \in DOMAIN LowerCase THEN LowerCase[c] ELSE c) \o LowerFrom(st, i + 1)

\* String.prototype.toLowerCase on a lifecycle string (letters A to Z)
toLowerCase(st) == LowerFrom(st, 1)

RECURSIVE FilterSeq(_, _)
\* docker.listImages: every image, or those whose reference is `ref`
FilterSeq(seq, ref) ==
    IF seq = <<>> THEN <<>>
    ELSE (IF Head(seq) = ref THEN <<Head(seq)>> ELSE <<>>) \o FilterSeq(Tail(seq), ref)

ListImages(o) == IF o.scoped THEN FilterSeq(images, o.repo_tag) ELSE images

\* docker.listContainers({all: true, filters: {name: [name]}}): the name
\* filter of the daemon matches every container whose name contains it; an
\* empty repo name sets no filter (line 418)
ListContainers(o) ==
    IF o.scoped /\ Truthy(_split(o.repo_tag).repo)
    THEN {c \in DOMAIN containers : includes(c, _split(o.repo_tag).repo)}
    ELSE DOMAIN containers

\* container.Names[0] of a listed container
Names0(c) == <<"/">> \o c

\* the decimal digits
Digits == {"0", "1", "2", "3", "4", "5", "6", "7", "8", "9"}

DigitValue ==
    [c \in Digits |->
        CASE c = "0" -> 0 [] c = "1" -> 1 [] c = "2" -> 2 [] c = "3" -> 3 [] c = "4" -> 4
          [] c = "5" -> 5 [] c = "6" -> 6 [] c = "7" -> 7 [] c = "8" -> 8 [] c = "9" -> 9]

\* numeric order of two canonical decimal numerals (no leading zero): the
\* shorter is the smaller, and of two of one length the one with the smaller
\* digit where they first differ
NumeralLess(a, b) ==
    \/ Len(a) < Len(b)
    \/ /\ Len(a) = Len(b)
       /\ \E i \in DOMAIN a :
            /\ DigitValue[a[i]] < DigitValue[b[i]]
            /\ \A j \in 1..(i - 1) : a[j] = b[j]

\* the key is an array index: a canonical decimal numeral below 2^32 - 1
IsIndex(key) ==
    /\ Len(key) > 0
    /\ \A i \in DOMAIN key : key[i] \in Digits
    /\ Len(key) > 1 => key[1] # "0"
    /\ NumeralLess(key, Chars("4294967295"))

IsName(key) == ~IsIndex(key)

RECURSIVE Ascending(_)
\* the array indices of a set of keys in ascending numeric order
Ascending(keys) ==
    IF keys = {} THEN <<>>
    ELSE LET least == CHOOSE k \in keys : \A j \in keys \ {k} : NumeralLess(k, j)
         IN  <<least>> \o Ascending(keys \ {least})

\* Object.keys(obj) of an object whose keys were first set in the order
\* `keys`: the array indices ascending, then the other keys as they were set
ObjectKeys(keys) ==
    Ascending({keys[i] : i \in {j \in DOMAIN keys : IsIndex(keys[j])}})
        \o SelectSeq(keys, IsName)

RECURSIVE BuildInstalls(_, _, _)
\* the loops of lines 380-396 over the listed images: installs (map), and
\* the order in which its keys were first set (keys)
BuildInstalls(imgs, listed, acc) ==
    IF imgs = <<>> THEN acc
    ELSE LET fields == _split(Head(imgs))
             name   == fields.repo
             hit    == \E c \in listed : replaceFirst(Names0(c), "/") = name
             next   == IF hit
                       THEN [keys |-> IF name \in DOMAIN acc.map \/ name = ProtoKey
                                      THEN acc.keys
                                      ELSE Append(acc.keys, name),
                             map  |-> Put(acc.map, name, fields.tag)]
                       ELSE acc
         IN  BuildInstalls(Tail(imgs), listed, next)

\* a mutation of RefreshState: the refresh overwrites a terminated state
RefreshStateUnguarded(old, reported) == toLowerCase(reported)

\* lines 390-392: the cached state of a matched container after the refresh
RefreshState(old, reported) ==
    IF old # "terminated" THEN toLowerCase(reported) ELSE old

\* states after the loops of lines 380-396
RefreshedStates(map, listed) ==
    [k \in DOMAIN states \cup DOMAIN map |->
        IF k \in DOMAIN map
        THEN RefreshState(GetState(states, k), containers[k].State)
        ELSE states[k]]

RECURSIVE JoinKeys(_)
\* the property key an array of names is converted to: its elements joined by ","
JoinKeys(keys) ==
    IF keys = <<>> THEN <<>>
    ELSE IF Len(keys) = 1 THEN keys[1]
    ELSE keys[1] \o <<",">> \o JoinKeys(Tail(keys))

\* docker.listImages answered (lines 370-374)
ListImagesDone(s, fail) ==
    LET o == ops[s]
    IN  /\ o.pc = "list_images"
        /\ ops' = [ops EXCEPT ![s] =
                IF fail THEN Complete(o, ErrDaemon("listImages"), Undefined)
                ELSE Issue([o EXCEPT !.imgs = ListImages(o)], "list_containers",
                           "listContainers")]
        /\ UNCHANGED <<docker_version, installed, states, image_config, containers,
                       images, dirs, files, ncalls, bind_props>>

\* a mutation of ListContainersDone: the full refresh adds to the install
\* record instead of replacing it
ListContainersDoneMerging(s, fail) ==
    LET o      == ops[s]
        listed == ListContainers(o)
        built  == BuildInstalls(o.imgs, listed, [keys |-> <<>>, map |-> <<>>])
        key    == JoinKeys(ObjectKeys(built.keys))
        merged == [k \in DOMAIN installed \cup DOMAIN built.map |->
                        IF k \in DOMAIN built.map THEN built.map[k] ELSE installed[k]]
    IN  /\ o.pc = "list_containers"
        /\ IF fail
           THEN /\ ops' = [ops EXCEPT ![s] =
                        Complete(o, ErrDaemon("listContainers"), Undefined)]
                /\ UNCHANGED <<installed, states>>
           ELSE /\ states' = RefreshedStates(built.map, listed)
                /\ IF o.scoped
                   THEN /\ installed' = Put(installed, key, Get(built.map, key))
                        /\ ops' = [ops EXCEPT ![s] =
                                Complete(o, NoError, Get(built.map, key))]
                   ELSE /\ installed' = merged
                        /\ ops' = [ops EXCEPT ![s] = CompleteMap(o, NoError, merged)]
        /\ UNCHANGED <<docker_version, image_config, containers, images, dirs, files,
                       ncalls, bind_props>>

\* docker.listContainers answered (lines 374-409)
ListContainersDone(s, fail) ==
    LET o      == ops[s]
        listed == ListContainers(o)
        built  == BuildInstalls(o.imgs, listed, [keys |-> <<>>, map |-> <<>>])
        key    == JoinKeys(ObjectKeys(built.keys))
    IN  /\ o.pc = "list_containers"
        /\ IF fail
           THEN /\ ops' = [ops EXCEPT ![s] =
                        Complete(o, ErrDaemon("listContainers"), Undefined)]
                /\ UNCHANGED <<installed, states>>
           ELSE /\ states' = RefreshedStates(built.map, listed)
                /\ IF o.scoped
                   THEN /\ installed' = Put(installed, key, Get(built.map, key))
                        /\ ops' = [ops EXCEPT ![s] =
                                Complete(o, NoError, Get(built.map, key))]
                   ELSE /\ installed' = built.map
                        /\ ops' = [ops EXCEPT ![s] = CompleteMap(o, NoError, built.map)]
        /\ UNCHANGED <<docker_version, image_config, containers, images, dirs, files,
                       ncalls, bind_props>>

(***************************************************************************)
(* Constructor (lines 24-42)                                               *)
(***************************************************************************)
\* a mutation of VersionDone: the host OS is not looked at
VersionDoneAnyOs(s, answer) ==
    LET o == ops[s]
    IN  /\ o.pc = "version"
        /\ IF ~answer.err /\ Truthy(answer.Version)
           THEN /\ docker_version' = answer
                /\ ops' = [ops EXCEPT ![s] = Issue(o, "list_images", "listImages")]
           ELSE /\ ops' = [ops EXCEPT ![s] = Complete(o, ErrDockerMissing, Undefined)]
                /\ UNCHANGED docker_version
        /\ UNCHANGED <<installed, states, image_config, containers, images, dirs, files,
                       ncalls, bind_props>>

\* docker.version answered
VersionDone(s, answer) ==
    LET o == ops[s]
    IN  /\ o.pc = "version"
        /\ IF ~answer.err /\ Truthy(answer.Version)
           THEN IF answer.Os = "linux"
                THEN /\ docker_version' = answer
                     /\ ops' = [ops EXCEPT ![s] = Issue(o, "list_images", "listImages")]
                ELSE /\ ops' = [ops EXCEPT ![s] =
                             Complete(o, ErrHostOs(answer.Os), Undefined)]
                     /\ UNCHANGED docker_version
           ELSE /\ ops' = [ops EXCEPT ![s] = Complete(o, ErrDockerMissing, Undefined)]
                /\ UNCHANGED docker_version
        /\ UNCHANGED <<installed, states, image_config, containers, images, dirs, files,
                       ncalls, bind_props>>

(***************************************************************************)
(* install (lines 84-158)                                                  *)
(***************************************************************************)
\* the operation's step: its record and the configuration object it works on
Commit(s, newop, newcfg) ==
    /\ ops' = [ops EXCEPT ![s] =
            IF ops[s].own_config THEN [newop EXCEPT !.config = newcfg] ELSE newop]
    /\ image_config' =
            IF ops[s].own_config \/ ops[s].desc = 0 THEN image_config
            ELSE [image_config EXCEPT ![ops[s].desc] = newcfg]

\* a mutation of InstallGuard: the architecture's tag is not looked up
InstallGuardNoTag(d) == ~docker_version.err

\* line 85: docker_version && image && image.tags[docker_version.Arch]
InstallGuard(d) == ~docker_version.err /\ Truthy(TagFor(d, docker_version.Arch))

RECURSIVE EnvEntries(_)
\* lines 95-97: name + '=' + options.env[name] for every name
EnvEntries(env) ==
    IF env = <<>> THEN <<>>
    ELSE <<Head(env).name \o <<"=">> \o ToStr(Head(env).value)>> \o EnvEntries(Tail(env))

RECURSIVE DeviceEntries(_)
\* lines 109-115
DeviceEntries(devices) ==
    IF devices = <<>> THEN <<>>
    ELSE <<[PathOnHost |-> Head(devices), PathInContainer |-> Head(devices),
            CgroupPermissions |-> "rwm"]>> \o DeviceEntries(Tail(devices))

\* lines 89-117: options merged into image.config
WithOptions(cfg, options) ==
    IF options.set
    THEN [cfg EXCEPT !.Env = @ \o EnvEntries(options.env),
                     !.Devices = @ \o DeviceEntries(options.devices)]
    ELSE cfg

\* _install called (line 341): docker.pull issued
StartInstall(o, repo_tag) == Issue([o EXCEPT !.repo_tag = repo_tag], "pull", "pull")

\* line 142: volume && image.config.HostConfig.Binds.length, volume being
\* the argument of the callback of line 131
MountRootGuard(o, cfg) == o.volume.found /\ Len(cfg.Binds) > 0

\* lines 138-151, no error: the callback install gives the bind walk
AfterBinds(o, cfg) ==
    LET cfg2 == IF MountRootGuard(o, cfg)
                THEN [cfg EXCEPT !.Volumes = IF bind_props[o.bp].root = ProtoKey
                                              THEN @
                                              ELSE @ \cup {ToStr(bind_props[o.bp].root)},
                                 !.Binds = Append(@, ToStr(o.volume.name) \o <<":">>
                                                     \o ToStr(bind_props[o.bp].root)
                                                     \o <<":","r","o">>)]
                ELSE cfg
    IN  [o |-> StartInstall(o, o.repo_tag), cfg |-> cfg2]

\* a mutation of IsAbsolute: every bind is taken as absolute
IsAbsoluteAlways(bind) == TRUE

\* line 286: binds[count].indexOf('/') === 0
IsAbsolute(bind) == indexOf(bind, "/") = 0

\* binds[count]
BindAt(o) == Descriptors[o.desc].binds[o.count + 1]

\* line 289
binds_path(o) == Plus(bind_props[o.bp].root, bind_props[o.bp].binds_path)

\* line 290
full_path(o) == binds_path(o) \o substring0(BindAt(o), lastIndexOf(BindAt(o), "/"))

\* line 291
full_name(o) == binds_path(o) \o BindAt(o)

\* lines 292-294, props being the bind_props object as it is when
\* _create_bind_path_and_file is entered
full_volume_name(o, props) ==
    IF props.has_volume
    THEN props.volume.source \o ToStr(props.binds_path) \o BindAt(o)
    ELSE full_name(o)

RECURSIVE EnterBind(_, _, _, _)
\* _create_bind_path_and_file(config, bind_props, binds, count, cb) up to its
\* first asynchronous call (lines 284-297, 333-337); props is the bind_props
\* object as the call finds it
EnterBind(o, cfg, count, props) ==
    IF IsAbsolute(Descriptors[o.desc].binds[count + 1])
    THEN LET o1 == [o EXCEPT !.count = count]
         IN  [o   |-> Issue([o1 EXCEPT !.full_volume_name = full_volume_name(o1, props)],
                            "mkdirp", "mkdirp"),
              cfg |-> cfg]
    ELSE IF count # 0
    THEN EnterBind(o, cfg, count - 1, props)
    ELSE AfterBinds([o EXCEPT !.count = count], cfg)

\* a mutation of NextBind: the walk ends after the first bind it handled
NextBindStops(o, cfg) == AfterBinds(o, cfg)

\* lines 312-316 and 323-327: after the file of binds[count] is in place
NextBind(o, cfg) ==
    IF o.count # 0 THEN EnterBind(o, cfg, o.count - 1, bind_props[o.bp])
    ELSE AfterBinds(o, cfg)

\* install(image, bind_props, options, cb) up to its first asynchronous call
Install(s, d, bp, options) ==
    LET o == [IdleOp EXCEPT !.op = "install", !.desc = d, !.bp = bp,
                            !.name = get_name(Descriptors[d])]
    IN  /\ Free(s)
        /\ ncalls < MaxCalls
        /\ ncalls' = ncalls + 1
        /\ IF docker_version.err /\ ~InstallGuard(d)
           THEN \* line 156 reads docker_version.Arch of undefined
                /\ ops' = [ops EXCEPT ![s] = [o EXCEPT !.pc = "threw"]]
                /\ UNCHANGED image_config
           ELSE IF InstallGuard(d)
           THEN LET repo_tag == ToStr(Descriptors[d].repo) \o <<":">>
                                    \o ToStr(TagFor(d, docker_version.Arch))
                    o1  == [o EXCEPT !.repo_tag = repo_tag]
                    cfg == WithOptions(image_config[d], options)
                IN  /\ image_config' = [image_config EXCEPT ![d] = cfg]
                    /\ ops' = [ops EXCEPT ![s] =
                            IF Descriptors[d].has_binds /\ bp # NoBindProps
                            THEN Issue(o1, "get_volume", "inspect")
                            ELSE [o1 EXCEPT !.pc = "dropped"]]
           ELSE /\ ops' = [ops EXCEPT ![s] =
                        Complete(o, ErrNoArch(docker_version.Arch), Undefined)]
                /\ UNCHANGED image_config
        /\ UNCHANGED <<docker_version, installed, states, containers, images, dirs,
                       files, bind_props>>

RECURSIVE FindMount(_, _)
\* lines 268-278: the first mount whose destination the bind root contains
FindMount(mounts, destination) ==
    IF mounts = <<>> THEN NoVolume
    ELSE IF includes(destination, ToStr(Head(mounts).Destination))
    THEN [found |-> TRUE, source |-> ToStr(Head(mounts).Source) \o <<"/">>,
          name |-> Head(mounts).Name]
    ELSE FindMount(Tail(mounts), destination)

\* _get_volume(name, destination, cb) (lines 262-282); with fail the inspect
\* answers an error and no info
_get_volume(name, destination, fail) ==
    IF ~fail /\ name \in DOMAIN containers
    THEN IF containers[name].Mounts # <<>> /\ destination = Undefined
         THEN TypeError  \* line 269: undefined has no includes method
         ELSE FindMount(containers[name].Mounts, destination)
    ELSE NoVolume

\* the inspect of _get_volume answered (lines 131-153): the volume is kept by
\* the callback and written to the caller's bind_props object (line 134)
GetVolumeDone(s, fail) ==
    LET o      == ops[s]
        volume == _get_volume(bind_props[o.bp].name, bind_props[o.bp].root, fail)
        count  == Len(Descriptors[o.desc].binds)
        props  == [bind_props[o.bp] EXCEPT
                        !.has_volume = volume.found,
                        !.volume = [source |-> volume.source, name |-> volume.name]]
        o1     == [o EXCEPT !.volume = volume]
        next   == IF count # 0
                  THEN EnterBind(o1, Cfg(o), count - 1, props)
                  ELSE [o |-> [o1 EXCEPT !.pc = "dropped"], cfg |-> Cfg(o)]
    IN  /\ o.pc = "get_volume"
        /\ IF volume = TypeError
           THEN \* line 269 throws in the callback: nothing calls back any more
                /\ ops' = [ops EXCEPT ![s] = [o EXCEPT !.pc = "threw"]]
                /\ UNCHANGED <<bind_props, image_config>>
           ELSE /\ bind_props' = [bind_props EXCEPT ![o.bp] = props]
                /\ Commit(s, next.o, next.cfg)
        /\ UNCHANGED <<docker_version, installed, states, containers, images, dirs,
                       files, ncalls>>

(***************************************************************************)
(* _create_bind_path_and_file (lines 284-338)                              *)
(***************************************************************************)
RECURSIVE Segments(_, _)
\* the directory names a path walks through, after those of acc: an empty
\* part and "." name nothing, ".." leaves the directory entered last
Segments(parts, acc) ==
    IF parts = <<>> THEN acc
    ELSE LET part == Head(parts)
         IN  Segments(Tail(parts),
                      IF part = <<>> \/ part = <<".">> THEN acc
                      ELSE IF part = <<".", ".">>
                      THEN SubSeq(acc, 1, Len(acc) - 1)
                      ELSE Append(acc, part))

RECURSIVE JoinPath(_)
JoinPath(segs) ==
    IF segs = <<>> THEN <<>> ELSE <<"/">> \o Head(segs) \o JoinPath(Tail(segs))

\* the directory a path string names to mkdirp, which resolves it as text
\* (path.resolve): "/r//p", "/r/p/" and "/r/x/../p" name "/r/p"; the working
\* directory is taken to be the root directory
Resolve(path) ==
    LET segs == Segments(split(path, "/"), <<>>)
    IN  IF segs = <<>> THEN <<"/">> ELSE JoinPath(segs)

\* the directory `path` names and the directories above it, but for the root
Ancestors(path) ==
    LET segs == Segments(split(path, "/"), <<>>)
    IN  {JoinPath(SubSeq(segs, 1, n)) : n \in 1..Len(segs)}

\* the directory with the segments segs exists
DirThere(segs) == segs = <<>> \/ JoinPath(segs) \in dirs

RECURSIVE Walk(_, _)
\* the kernel's walk along the parts of a path from the directory acc: every
\* part, an empty one, "." and ".." too, is looked up in a directory that
\* must exist (ENOENT when nothing is there, ENOTDIR when a file is)
Walk(parts, acc) ==
    IF parts = <<>> THEN [err |-> "", segs |-> acc]
    ELSE IF ~DirThere(acc)
    THEN [err  |-> IF JoinPath(acc) \in DOMAIN files THEN "ENOTDIR" ELSE "ENOENT",
          segs |-> acc]
    ELSE LET part == Head(parts)
         IN  Walk(Tail(parts),
                  IF part = <<>> \/ part = <<".">> THEN acc
                  ELSE IF part = <<".", ".">> THEN SubSeq(acc, 1, Len(acc) - 1)
                  ELSE Append(acc, part))

\* what fs.open and fs.writeFile find at a path: the file or directory it
\* leads to, or the error of the walk, ENOENT when its last part is missing
Lookup(path) ==
    LET walk   == Walk(split(path, "/"), <<>>)
        target == IF walk.segs = <<>> THEN <<"/">> ELSE JoinPath(walk.segs)
    IN  [target |-> target,
         found  |-> IF walk.err # "" THEN walk.err
                    ELSE IF DirThere(walk.segs) THEN "dir"
                    ELSE IF target \in DOMAIN files THEN "file"
                    ELSE "ENOENT",
         parent |-> walk.err = ""]

\* fs.open(path, 'r') fails with an error other than ENOENT
OpenRefused(path) == Lookup(path).found = "ENOTDIR"

\* fs.writeFile(path, '') fails: the path leads to a directory, or not to a
\* place in an existing directory
WriteRefused(path) == Lookup(path).found = "dir" \/ ~Lookup(path).parent

\* mkdirp(full_path) cannot succeed: a file is in the way
MkdirpBlocked(path) == \E a \in Ancestors(path) : a \in DOMAIN files

\* a mutation of FsFailed: the error is dropped and the walk goes on
FsFailedIgnored(o, call) == [o EXCEPT !.pc = "close"]

\* lines 298-299, 310-311, 318-319 with 139-140: a filesystem error is passed
\* to the bind walk's callback, which hands it to install's callback
FsFailed(o, call) == Complete(o, ErrFs(call), Undefined)

\* mkdirp answered (lines 297-305)
MkdirpDone(s, fail) ==
    LET o   == ops[s]
        cfg == Cfg(o)
    IN  /\ o.pc = "mkdirp"
        /\ IF fail \/ MkdirpBlocked(full_path(o))
           THEN /\ Commit(s, FsFailed(o, "mkdirp"), cfg)
                /\ UNCHANGED dirs
           ELSE /\ dirs' = dirs \cup Ancestors(full_path(o))
                /\ Commit(s,
                      Issue([o EXCEPT !.made = @ \cup (Ancestors(full_path(o)) \ dirs)],
                            "open", "open"),
                      [cfg EXCEPT !.Volumes = @ \cup {BindAt(o)},
                                  !.Binds = Append(@, o.full_volume_name \o <<":">>
                                                      \o BindAt(o))])
        /\ UNCHANGED <<docker_version, installed, states, containers, images, files,
                       ncalls, bind_props>>

\* a mutation of OpenDone: the empty file is written whether or not the file
\* exists
OpenDoneAlwaysWrites(s, fail) ==
    LET o == ops[s]
    IN  /\ o.pc = "open"
        /\ ops' = [ops EXCEPT ![s] =
                IF fail THEN FsFailed(o, "open") ELSE Issue(o, "write", "writeFile")]
        /\ UNCHANGED <<docker_version, installed, states, image_config, containers,
                       images, dirs, files, ncalls, bind_props>>

\* fs.open(full_name, 'r') answered (lines 305-330)
OpenDone(s, fail) ==
    LET o      == ops[s]
        exists == Lookup(full_name(o)).found \in {"file", "dir"}
    IN  /\ o.pc = "open"
        /\ ops' = [ops EXCEPT ![s] =
                IF fail \/ OpenRefused(full_name(o)) THEN FsFailed(o, "open")
                ELSE IF exists THEN Issue(o, "close", "close")
                ELSE Issue(o, "write", "writeFile")]
        /\ UNCHANGED <<docker_version, installed, states, image_config, containers,
                       images, dirs, files, ncalls, bind_props>>

\* fs.writeFile(full_name, '') answered (lines 309-317)
WriteDone(s, fail) ==
    LET o    == ops[s]
        next == NextBind([o EXCEPT !.made = @ \cup {Lookup(full_name(o)).target}],
                         Cfg(o))
    IN  /\ o.pc = "write"
        /\ IF fail \/ WriteRefused(full_name(o))
           THEN /\ Commit(s, FsFailed(o, "writeFile"), Cfg(o))
                /\ UNCHANGED files
           ELSE /\ files' = Store(files, Lookup(full_name(o)).target, <<>>)
                /\ Commit(s, next.o, next.cfg)
        /\ UNCHANGED <<docker_version, installed, states, containers, images, dirs,
                       ncalls, bind_props>>

\* fs.close(fd) answered (lines 322-328): its error is ignored
CloseDone(s) ==
    LET o    == ops[s]
        next == NextBind(o, Cfg(o))
    IN  /\ o.pc = "close"
        /\ Commit(s, next.o, next.cfg)
        /\ UNCHANGED <<docker_version, installed, states, containers, images, dirs,
                       files, ncalls, bind_props>>

(***************************************************************************)
(* _install (lines 340-359)                                                *)
(***************************************************************************)
\* docker.pull answered (lines 341-345): an error, or the progress stream
PullDone(s, fail) ==
    LET o == ops[s]
    IN  /\ o.pc = "pull"
        /\ ops' = [ops EXCEPT ![s] =
                IF fail THEN Complete(o, ErrDaemon("pull"), Undefined)
                ELSE Issue(o, "follow", "followProgress")]
        /\ UNCHANGED <<docker_version, installed, states, image_config, containers,
                       images, dirs, files, ncalls, bind_props>>

\* the pull stream finished (lines 345-349); with fail the stream ended in an
\* error and the image did not arrive: onFinished ignores its err argument
FollowDone(s, fail) ==
    LET o   == ops[s]
        cfg == [Cfg(o) EXCEPT !.name = _split(o.repo_tag).repo, !.Image = o.repo_tag]
    IN  /\ o.pc = "follow"
        /\ IF _split(o.repo_tag) = TypeError
           THEN \* line 346 throws in onFinished: nothing calls back any more
                /\ ops' = [ops EXCEPT ![s] = [o EXCEPT !.pc = "threw"]]
                /\ UNCHANGED <<images, image_config>>
           ELSE /\ images' = IF fail \/ \E i \in DOMAIN images : images[i] = o.repo_tag
                             THEN images ELSE Append(images, o.repo_tag)
                /\ Commit(s, Issue(o, "create", "createContainer"), cfg)
        /\ UNCHANGED <<docker_version, installed, states, containers, dirs, files,
                       ncalls, bind_props>>

\* the daemon refuses to create: the name is taken, or the image is not there
CreateRefused(cfg) ==
    \/ cfg.name \in DOMAIN containers
    \/ ~ \E i \in DOMAIN images : images[i] = cfg.Image

\* docker.createContainer answered (lines 349-355)
CreateDone(s, fail) ==
    LET o   == ops[s]
        cfg == Cfg(o)
    IN  /\ o.pc = "create"
        /\ IF fail \/ CreateRefused(cfg)
           THEN /\ ops' = [ops EXCEPT ![s] =
                        Complete(o, ErrDaemon("createContainer"), Undefined)]
                /\ UNCHANGED containers
           ELSE /\ containers' = Store(containers, cfg.name,
                                       Container("created", cfg.Image, cfg, <<>>))
                /\ ops' = [ops EXCEPT ![s] =
                        Issue([o EXCEPT !.scoped = Truthy(o.repo_tag)],
                              "list_images", "listImages")]
        /\ UNCHANGED <<docker_version, installed, states, image_config, images, dirs,
                       files, ncalls, bind_props>>

(***************************************************************************)
(* update (lines 174-194) and uninstall (lines 196-220)                    *)
(***************************************************************************)
\* update(name, cb): container.inspect issued
Update(s, name) ==
    /\ Free(s)
    /\ ncalls < MaxCalls
    /\ ncalls' = ncalls + 1
    /\ ops' = [ops EXCEPT ![s] = [NewOp("update", "inspect", "inspect") EXCEPT !.name = name]]
    /\ UNCHANGED <<docker_version, installed, states, image_config, containers, images,
                   dirs, files, bind_props>>

\* uninstall(name, cb): container.inspect issued
Uninstall(s, name) ==
    /\ Free(s)
    /\ ops' = [ops EXCEPT ![s] =
            [NewOp("uninstall", "inspect", "inspect") EXCEPT !.name = name]]
    /\ UNCHANGED <<docker_version, installed, states, image_config, containers, images,
                   dirs, files, ncalls, bind_props>>

\* container.inspect answered (lines 177-183, 199-203, 190-192, 216-218)
InspectDone(s, fail) ==
    LET o == ops[s]
    IN  /\ o.pc = "inspect"
        /\ ops' = [ops EXCEPT ![s] =
                IF fail THEN Complete(o, ErrDaemon("inspect"), Undefined)
                ELSE IF o.name \in DOMAIN containers
                THEN Issue([o EXCEPT !.repo_tag = containers[o.name].Config.Image,
                                     !.own_config = (o.op = "update"),
                                     !.config = IF o.op = "update"
                                                THEN containers[o.name].Config
                                                ELSE @],
                           "remove", "remove")
                ELSE Complete(o, ErrNotFound, Undefined)]
        /\ UNCHANGED <<docker_version, installed, states, image_config, containers,
                       images, dirs, files, ncalls, bind_props>>

\* the daemon refuses to remove a container: it is gone, or its process is
\* there (running, paused or restarting)
RemoveRefused(name) ==
    \/ name \notin DOMAIN containers
    \/ containers[name].State \in {"running", "paused", "restarting"}

\* a mutation of RemoveDone: update recreates the container without a pull
RemoveDoneNoPull(s, fail) ==
    LET o == ops[s]
    IN  /\ o.pc = "remove"
        /\ IF fail \/ RemoveRefused(o.name)
           THEN /\ ops' = [ops EXCEPT ![s] = Complete(o, ErrDaemon("remove"), Undefined)]
                /\ UNCHANGED containers
           ELSE /\ containers' = [c \in DOMAIN containers \ {o.name} |-> containers[c]]
                /\ ops' = [ops EXCEPT ![s] =
                        IF o.op = "update" THEN Issue(o, "create", "createContainer")
                        ELSE Issue(o, "remove_image", "removeImage")]
        /\ UNCHANGED <<docker_version, installed, states, image_config, images, dirs,
                       files, ncalls, bind_props>>

\* container.remove answered (lines 183-189, 203-214)
RemoveDone(s, fail) ==
    LET o == ops[s]
    IN  /\ o.pc = "remove"
        /\ IF fail \/ RemoveRefused(o.name)
           THEN /\ ops' = [ops EXCEPT ![s] = Complete(o, ErrDaemon("remove"), Undefined)]
                /\ UNCHANGED containers
           ELSE /\ containers' = [c \in DOMAIN containers \ {o.name} |-> containers[c]]
                /\ ops' = [ops EXCEPT ![s] =
                        IF o.op = "update" THEN StartInstall(o, o.repo_tag)
                        ELSE Issue(o, "remove_image", "removeImage")]
        /\ UNCHANGED <<docker_version, installed, states, image_config, images, dirs,
                       files, ncalls, bind_props>>

\* the daemon refuses to remove an image: it is gone, or a container uses it
RemoveImageRefused(ref) ==
    \/ ~ \E i \in DOMAIN images : images[i] = ref
    \/ \E c \in DOMAIN containers : containers[c].Image = ref

RECURSIVE Without(_, _)
Without(seq, x) ==
    IF seq = <<>> THEN <<>>
    ELSE (IF Head(seq) = x THEN <<>> ELSE <<Head(seq)>>) \o Without(Tail(seq), x)

\* a mutation of RemoveImageDone: the cache is refreshed although the
\* image's removal failed
RemoveImageDoneIgnored(s, fail) ==
    LET o == ops[s]
    IN  /\ o.pc = "remove_image"
        /\ images' = IF fail \/ RemoveImageRefused(o.repo_tag)
                     THEN images ELSE Without(images, o.repo_tag)
        /\ ops' = [ops EXCEPT ![s] =
                Issue([o EXCEPT !.scoped = FALSE], "list_images", "listImages")]
        /\ UNCHANGED <<docker_version, installed, states, image_config, containers,
                       dirs, files, ncalls, bind_props>>

\* docker.getImage(image_name).remove answered (lines 207-213)
RemoveImageDone(s, fail) ==
    LET o == ops[s]
    IN  /\ o.pc = "remove_image"
        /\ IF fail \/ RemoveImageRefused(o.repo_tag)
           THEN /\ ops' = [ops EXCEPT ![s] =
                        Complete(o, ErrDaemon("removeImage"), Undefined)]
                /\ UNCHANGED images
           ELSE /\ images' = Without(images, o.repo_tag)
                /\ ops' = [ops EXCEPT ![s] =
                        Issue([o EXCEPT !.scoped = FALSE], "list_images", "listImages")]
        /\ UNCHANGED <<docker_version, installed, states, image_config, containers,
                       dirs, files, ncalls, bind_props>>

(***************************************************************************)
(* start (lines 222-232), stop (lines 234-246), terminate (lines 248-260)  *)
(***************************************************************************)
\* start(name): container.start issued
Start(s, name) ==
    /\ Free(s)
    /\ ops' = [ops EXCEPT ![s] = [NewOp("start", "start", "start") EXCEPT !.name = name]]
    /\ UNCHANGED <<docker_version, installed, states, image_config, containers, images,
                   dirs, files, ncalls, bind_props>>

\* stop(name, cb): container.stop issued
Stop(s, name) ==
    /\ Free(s)
    /\ ops' = [ops EXCEPT ![s] = [NewOp("stop", "stop", "stop") EXCEPT !.name = name]]
    /\ UNCHANGED <<docker_version, installed, states, image_config, containers, images,
                   dirs, files, ncalls, bind_props>>

\* a mutation of TerminateGuard: terminate stops whatever the cached state
TerminateGuardNone(name) == TRUE

\* line 249
TerminateGuard(name) == GetState(states, name) = "running"

\* terminate(name, cb)
Terminate(s, name) ==
    /\ Free(s)
    /\ ops' = [ops EXCEPT ![s] =
            IF TerminateGuard(name)
            THEN [NewOp("terminate", "stop", "stop") EXCEPT !.name = name]
            ELSE Complete([IdleOp EXCEPT !.op = "terminate", !.name = name],
                          NoError, Undefined)]
    /\ UNCHANGED <<docker_version, installed, states, image_config, containers, images,
                   dirs, files, ncalls, bind_props>>

\* container.start answered (lines 225-226): the error is ignored
StartDone(s, fail) ==
    LET o == ops[s]
    IN  /\ o.pc = "start"
        /\ containers' =
                IF ~fail /\ o.name \in DOMAIN containers
                   /\ containers[o.name].State \in {"created", "exited", "running"}
                THEN [containers EXCEPT ![o.name].State = "running"]
                ELSE containers
        /\ ops' = [ops EXCEPT ![s] = Issue(o, "start_inspect", "inspect")]
        /\ UNCHANGED <<docker_version, installed, states, image_config, images, dirs,
                       files, ncalls, bind_props>>

\* container.stop answered (lines 237-238): the error is ignored
StopDone(s, fail) ==
    LET o == ops[s]
    IN  /\ o.pc = "stop"
        /\ containers' =
                IF ~fail /\ o.name \in DOMAIN containers
                   /\ containers[o.name].State \in {"running", "paused", "restarting"}
                THEN [containers EXCEPT ![o.name].State = "exited"]
                ELSE containers
        /\ ops' = [ops EXCEPT ![s] = Issue(o, "stop_inspect", "inspect")]
        /\ UNCHANGED <<docker_version, installed, states, image_config, images, dirs,
                       files, ncalls, bind_props>>

\* lines 227-229 and 239-241: states after the inspect that follows start or
\* stop; with fail the inspect answers an error and no info
InspectedStates(name, fail) ==
    IF ~fail /\ name \in DOMAIN containers
    THEN Put(states, name, containers[name].State)
    ELSE states

\* the inspect after start answered (lines 226-230)
StartInspectDone(s, fail) ==
    LET o == ops[s]
    IN  /\ o.pc = "start_inspect"
        /\ states' = InspectedStates(o.name, fail)
        /\ ops' = [ops EXCEPT ![s] = [o EXCEPT !.pc = "done"]]
        /\ UNCHANGED <<docker_version, installed, image_config, containers, images,
                       dirs, files, ncalls, bind_props>>

\* lines 251-253: terminate's callback to stop
Promote(sts, name) ==
    IF GetState(sts, name) = "exited" THEN Put(sts, name, "terminated") ELSE sts

\* the inspect after stop answered (lines 238-244, 250-256)
StopInspectDone(s, fail) ==
    LET o == ops[s]
    IN  /\ o.pc = "stop_inspect"
        /\ states' = IF o.op = "terminate"
                     THEN Promote(InspectedStates(o.name, fail), o.name)
                     ELSE InspectedStates(o.name, fail)
        /\ ops' = [ops EXCEPT ![s] = Complete(o, NoError, Undefined)]
        /\ UNCHANGED <<docker_version, installed, image_config, containers, images,
                       dirs, files, ncalls, bind_props>>

(***************************************************************************)
(* get_status (lines 44-73) and query_updates (lines 160-172)              *)
(***************************************************************************)
\* get_status(name); name = <<>> stands for a call without a name
get_status(name) ==
    LET tag     == IF name # <<>> THEN Get(installed, name) ELSE Undefined
        version == IF name = <<>> /\ ~docker_version.err
                   THEN docker_version.Version ELSE Undefined
        state   == IF Truthy(tag) THEN GetState(states, name) ELSE "not_installed"
    IN  [state   |-> IF state = "created" \/ state = "exited" THEN "stopped" ELSE state,
         version |-> version,
         tag     |-> tag,
         logging |-> Undefined]

\* a call of get_status
GetStatus(s, name) ==
    /\ Free(s)
    /\ ops' = [ops EXCEPT ![s] =
            [IdleOp EXCEPT !.op = "get_status", !.pc = "done", !.name = name,
                           !.ret = get_status(name)]]
    /\ UNCHANGED <<docker_version, installed, states, image_config, containers, images,
                   dirs, files, ncalls, bind_props>>

\* the argument query_updates hands its callback
query_updates(name) ==
    IF name # <<>>
    THEN IF Truthy(Get(installed, name))
         THEN Put(<<>>, name, Get(installed, name))
         ELSE <<>>
    ELSE installed

\* a call of query_updates
QueryUpdates(s, name) ==
    /\ Free(s)
    /\ ops' = [ops EXCEPT ![s] =
            CompleteMap([IdleOp EXCEPT !.op = "query_updates", !.name = name],
                        NoError, query_updates(name))]
    /\ UNCHANGED <<docker_version, installed, states, image_config, containers, images,
                   dirs, files, ncalls, bind_props>>

(***************************************************************************)
(* Initial states and specifications                                       *)
(***************************************************************************)
\* the sibling container bind_props.name refers to, as the daemon may hold it
Sibling(mounts) ==
    [k \in { <<"m">> } |->
        Container("running", <<"x",":","1">>,
                  [EmptyConfig EXCEPT !.name = <<"m">>, !.Image = <<"x",":","1">>],
                  mounts)]

\* the adapter right after `new ApiExtensionInstallerDocker(cb)` returned:
\* docker.version has been issued (lines 19-27)
InitAdapter ==
    /\ docker_version = NoVersion
    /\ installed = <<>>
    /\ states = <<>>
    /\ image_config = [d \in DescIds |-> Descriptors[d].config]
    /\ bind_props = HostBindProps
    /\ ops = [s \in {1} |-> NewOp("construct", "version", "version")]
    /\ ncalls = 0

\* life cycle of two extensions on a daemon that holds the sibling container
Init ==
    /\ InitAdapter
    /\ containers = Sibling(<<SiblingMount>>)
    /\ images = <<>>
    /\ dirs = {}
    /\ files = <<>>

\* the descriptors and names of the life-cycle specification
LifeDescs == {1, 3}

LifeNames == { <<"a">>, <<"b">>, <<"u","/","a">> }

Slots == DOMAIN ops

\* the calls the plugin host makes in the life-cycle specifications
Calls ==
    \/ \E s \in Slots, d \in LifeDescs : Install(s, d, 1, NoOptions)
    \/ \E s \in Slots, n \in LifeNames : Update(s, n)
    \/ \E s \in Slots, n \in LifeNames : Uninstall(s, n)
    \/ \E s \in Slots, n \in LifeNames : Start(s, n)
    \/ \E s \in Slots, n \in LifeNames : Stop(s, n)
    \/ \E s \in Slots, n \in LifeNames : Terminate(s, n)
    \/ \E s \in Slots, n \in LifeNames \cup {<<>>} : GetStatus(s, n)
    \/ \E s \in Slots, n \in LifeNames \cup {<<>>} : QueryUpdates(s, n)

\* the answers of the daemon (failing or not as `daemon` allows, a pull as
\* `pull` allows, the version call answering one of `answers`) and of the
\* filesystem (as `fs` allows)
Answers(daemon, fs, pull, answers) ==
    \/ \E s \in Slots, answer \in answers : VersionDone(s, answer)
    \/ \E s \in Slots, fail \in daemon : GetVolumeDone(s, fail)
    \/ \E s \in Slots, fail \in fs : MkdirpDone(s, fail)
    \/ \E s \in Slots, fail \in fs : OpenDone(s, fail)
    \/ \E s \in Slots, fail \in fs : WriteDone(s, fail)
    \/ \E s \in Slots : CloseDone(s)
    \/ \E s \in Slots, fail \in pull : PullDone(s, fail)
    \/ \E s \in Slots, fail \in pull : FollowDone(s, fail)
    \/ \E s \in Slots, fail \in daemon : CreateDone(s, fail)
    \/ \E s \in Slots, fail \in daemon : ListImagesDone(s, fail)
    \/ \E s \in Slots, fail \in daemon : ListContainersDone(s, fail)
    \/ \E s \in Slots, fail \in daemon : InspectDone(s, fail)
    \/ \E s \in Slots, fail \in daemon : RemoveDone(s, fail)
    \/ \E s \in Slots, fail \in daemon : RemoveImageDone(s, fail)

\* the answers to start and stop
LifecycleAnswers(daemon) ==
    \/ \E s \in Slots, fail \in daemon : StartDone(s, fail)
    \/ \E s \in Slots, fail \in daemon : StopDone(s, fail)
    \/ \E s \in Slots, fail \in daemon : StartInspectDone(s, fail)
    \/ \E s \in Slots, fail \in daemon : StopInspectDone(s, fail)

Next ==
    \/ Calls
    \/ Answers(BOOLEAN, {FALSE}, BOOLEAN, VersionAnswers)
    \/ LifecycleAnswers(BOOLEAN)

Spec == Init /\ [][Next]_vars

\* the same life cycle on a daemon and a filesystem that answer every call
\* without an error of their own (a call the daemon must refuse still fails)
LinuxAnswer == {a \in VersionAnswers : ~a.err /\ Truthy(a.Version) /\ a.Os = "linux"}

NextNoFault ==
    \/ Calls
    \/ Answers({FALSE}, {FALSE}, {FALSE}, LinuxAnswer)
    \/ LifecycleAnswers({FALSE})

SpecNoFault == Init /\ [][NextNoFault]_vars

\* the same life cycle, one operation at a time, where only a pull may fail
NextPullFaultLife ==
    \/ Calls
    \/ Answers({FALSE}, {FALSE}, BOOLEAN, LinuxAnswer)
    \/ LifecycleAnswers({FALSE})

SpecPullFaultLife == Init /\ [][NextPullFaultLife]_vars

\* install sequencing: every descriptor, with and without a bind root, options,
\* a sibling volume and files already in place, on a filesystem that may fail
InitInstall ==
    /\ InitAdapter
    /\ containers \in { <<>>, Sibling(<<OtherMount, SiblingMount>>) }
    /\ images = <<>>
    /\ \/ dirs = {} /\ files = <<>>
       \/ /\ dirs = Ancestors(<<"/","r","/","p">>)
          /\ files = [k \in { <<"/","r","/","p","/","g">> } |-> <<"x">>]

InstallNames == { <<"a">>, <<"b">> }

CallsInstall ==
    \/ \E s \in Slots, d \in DescIds, bp \in BindPropsSet, options \in OptionsSet :
            Install(s, d, bp, options)
    \/ \E s \in Slots, n \in InstallNames : Uninstall(s, n)

NextInstall ==
    \/ CallsInstall
    \/ Answers(BOOLEAN, BOOLEAN, BOOLEAN, VersionAnswers)

SpecInstall == InitInstall /\ [][NextInstall]_vars

\* install sequencing on a daemon and a filesystem that answer every call
\* without an error of their own
NextInstallNoFault ==
    \/ CallsInstall
    \/ Answers({FALSE}, {FALSE}, {FALSE}, LinuxAnswer)

SpecInstallNoFault == InitInstall /\ [][NextInstallNoFault]_vars

\* install sequencing where only a pull may fail
NextPullFault ==
    \/ CallsInstall
    \/ Answers({FALSE}, {FALSE}, BOOLEAN, LinuxAnswer)

SpecPullFault == InitInstall /\ [][NextPullFault]_vars

\* the adapter constructed on a host where extension b was installed by an
\* earlier run: the daemon holds its image and its container, in any of the
\* daemon's lifecycle states
Preinstalled(state) ==
    [k \in { <<"b">> } |->
        Container(state, <<"b",":","2">>,
                  [EmptyConfig EXCEPT !.name = <<"b">>, !.Image = <<"b",":","2">>], <<>>)]

InitDiscovery ==
    /\ InitAdapter
    /\ \E state \in DaemonStates :
            containers = [k \in { <<"m">>, <<"b">> } |->
                            IF k = <<"b">> THEN Preinstalled(state)[k]
                            ELSE Sibling(<<SiblingMount>>)[k]]
    /\ images = << <<"b",":","2">> >>
    /\ dirs = {}
    /\ files = <<>>

SpecDiscovery == InitDiscovery /\ [][NextNoFault]_vars

\* get_status and query_updates as functions of the caches: any install
\* record and any state cache over the names a and b, the daemon version
\* known or not; the names asked for include two that every plain object
\* inherits a property for
StatusNames == { <<"a">>, <<"b">> }

StatusQueries == Names \cup {Chars("constructor"), ProtoKey}

InitStatus ==
    /\ docker_version \in {NoVersion} \cup LinuxAnswer
    /\ \E D \in SUBSET StatusNames : installed \in [D -> { <<"1">>, <<"2">> }]
    /\ \E D \in SUBSET StatusNames : states \in [D -> DaemonStates \cup {"terminated"}]
    /\ image_config = [d \in DescIds |-> Descriptors[d].config]
    /\ bind_props = HostBindProps
    /\ ops = [s \in {1} |-> IdleOp]
    /\ ncalls = 0
    /\ containers = <<>>
    /\ images = <<>>
    /\ dirs = {}
    /\ files = <<>>

NextStatus ==
    \/ \E s \in Slots, n \in StatusQueries \cup {<<>>} : GetStatus(s, n)
    \/ \E s \in Slots, n \in StatusQueries \cup {<<>>} : QueryUpdates(s, n)

SpecStatus == InitStatus /\ [][NextStatus]_vars

\* two callers at once, each keeping to one name: the adapter is constructed
\* on a daemon that holds extension b; then the first caller uninstalls b
\* while the second installs descriptor 7 (name a), their daemon and
\* filesystem callbacks interleaving in any order
InitConcurrent ==
    /\ docker_version = NoVersion
    /\ installed = <<>>
    /\ states = <<>>
    /\ image_config = [d \in DescIds |-> Descriptors[d].config]
    /\ bind_props = HostBindProps
    /\ ops = [s \in {1, 2} |->
                IF s = 1 THEN NewOp("construct", "version", "version") ELSE IdleOp]
    /\ ncalls = 0
    /\ containers = [k \in { <<"m">>, <<"b">> } |->
                        IF k = <<"b">> THEN Preinstalled("exited")[k]
                        ELSE Sibling(<<SiblingMount>>)[k]]
    /\ images = << <<"b",":","2">> >>
    /\ dirs = {}
    /\ files = <<>>

\* the callers wait for the constructor's callback before they call
CallsConcurrent ==
    \/ Uninstall(1, <<"b">>)
    \/ ops[1].op # "construct" /\ Install(2, 7, 1, NoOptions)

NextConcurrent ==
    \/ CallsConcurrent
    \/ Answers({FALSE}, {FALSE}, {FALSE}, LinuxAnswer)

SpecConcurrent == InitConcurrent /\ [][NextConcurrent]_vars

(***************************************************************************)
(* Claims                                                                  *)
(***************************************************************************)
\* the step is taken by the operation in slot s
Acts(s) == ops'[s] # ops[s]

\* an install, update or uninstall of name n is under way after the step
Reinstalling(n) ==
    \E s \in Slots : /\ ops'[s].op \in {"install", "update", "uninstall"}
                     /\ ops'[s].name = n
                     /\ ~ ops'[s].pc \in {"done", "dropped", "threw"}

\* C1: once states[name] is 'terminated', no operation that reports daemon
\* state (start, stop, terminate, a scoped or full refresh) changes it; it
\* stays 'terminated' until the name is uninstalled or reinstalled.
C1_TerminatedSticky ==
    [][\A n \in DOMAIN states :
            (states[n] = "terminated" /\ ~Reinstalling(n))
                => GetState(states', n) = "terminated"]_vars

\* the step runs terminate's callback: the inspect after its stop reports
\* that the stop left the container exited
TerminateCallback(s) ==
    /\ ops[s].op = "terminate"
    /\ StopInspectDone(s, FALSE)
    /\ ops[s].name \in DOMAIN containers
    /\ containers[ops[s].name].State = "exited"

\* the step is a get_status, a query_updates or a cache-refresh step
QueryOrRefreshStep ==
    \E s \in Slots :
        /\ Acts(s)
        /\ \/ ops'[s].op \in {"get_status", "query_updates"}
           \/ ops[s].pc \in {"list_images", "list_containers"}

\* C2: terminate from cached state 'running' whose stop leaves the container
\* 'exited' (as the inspect after the stop reports) ends with states[name] = 'terminated' when its callback fires, and
\* get_status(name) keeps reporting 'terminated' across get_status,
\* query_updates and cache-refresh steps while the container is in place.
C2_TerminateReported ==
    [][/\ \A s \in Slots :
            TerminateCallback(s) =>
                /\ ops'[s].cb_count = 1
                /\ GetState(states', ops[s].name) = "terminated"
                /\ (Truthy(Get(installed, ops[s].name))
                        => (get_status(ops[s].name).state = "terminated")')
       /\ \A n \in LifeNames :
            (/\ get_status(n).state = "terminated"
             /\ QueryOrRefreshStep
             /\ n \in DOMAIN containers')
                => (get_status(n).state = "terminated")']_vars

\* C2 witness: a full cache refresh (the uninstall of another name) has
\* completed while get_status of a terminated name reports 'terminated'
C2_Witness ==
    \E s \in Slots :
        /\ ops[s].op = "uninstall"
        /\ ops[s].pc = "done"
        /\ ops[s].cb_err = NoError
        /\ ops[s].name = <<"b">>
        /\ get_status(<<"a">>).state = "terminated"
        /\ containers[<<"a">>].State = "exited"

\* the step completes an install of a name that was terminated and uninstalled
ReinstallCompletes(s) ==
    /\ ops[s].op = "install"
    /\ ops[s].pc = "list_containers"
    /\ ops'[s].pc = "done"
    /\ ops'[s].cb_err = NoError
    /\ GetState(states, ops[s].name) = "terminated"
    /\ ~Truthy(Get(installed, ops[s].name))

\* C3: after a terminated name is uninstalled and installed again, its cached
\* state is the state the daemon reports for the new container, and
\* get_status(name) reports 'stopped', not 'terminated'.
C3_ReinstallClearsTerminated ==
    [][\A s \in Slots :
            ReinstallCompletes(s) =>
                /\ GetState(states', ops[s].name) = containers'[ops[s].name].State
                /\ (get_status(ops[s].name).state = "stopped")']_vars

\* the operation in slot s is an install whose descriptor has a tag for the
\* daemon's architecture
TaggedInstall(s) ==
    /\ ops[s].op = "install"
    /\ ~docker_version.err
    /\ Truthy(TagFor(ops[s].desc, docker_version.Arch))

\* a callback of the operation is still to run
Pending(s) == ~ ops[s].pc \in {"idle", "done", "dropped", "threw"}

\* C4: every install whose descriptor has a tag for the daemon's architecture
\* invokes its completion callback exactly once, whether the descriptor has
\* several binds, an empty bind list or no binds, with or without a bind root:
\* whenever nothing of the install is pending, the callback has run once.
C4_InstallCallsBack ==
    \A s \in Slots :
        TaggedInstall(s) =>
            /\ ops[s].cb_count <= 1
            /\ (~Pending(s) => ops[s].cb_count = 1)

\* C5: an install whose descriptor has no tag for the daemon's architecture
\* hands its callback the error naming the architecture, issues no daemon or
\* filesystem call, and leaves the install record, the state cache, the
\* daemon and the filesystem as they are.
C5_NoArchitectureImage ==
    [][\A s \in Slots :
            (/\ ops'[s].op = "install"
             /\ ~docker_version.err
             /\ ~Truthy(TagFor(ops'[s].desc, docker_version.Arch)))
                => /\ ops'[s].pc = "done"
                   /\ ops'[s].cb_count = 1
                   /\ ops'[s].cb_err = ErrNoArch(docker_version.Arch)
                   /\ ops'[s].trace = <<>>
                   /\ (Acts(s) => UNCHANGED <<installed, states, image_config,
                                              containers, images, dirs, files>>)]_vars

\* C5 witness: the install of descriptor 4 (a tag for arm only) on the amd64
\* daemon has handed its callback the error
C5_Witness ==
    \E s \in Slots :
        /\ ops[s].op = "install"
        /\ ops[s].desc = 4
        /\ ~docker_version.err
        /\ ops[s].pc = "done"
        /\ ops[s].cb_err = ErrNoArch("amd64")

\* the container path of a bind-mount entry hostPath:containerPath[:mode]
ContainerPath(entry) == split(entry, ":")[2]

\* the bind-mount entries of a configuration whose container path is `bind`
EntriesFor(cfg, bind) == {i \in DOMAIN cfg.Binds : ContainerPath(cfg.Binds[i]) = bind}

\* the absolute binds a descriptor declares
AbsoluteBinds(d) ==
    {Descriptors[d].binds[i] : i \in {j \in DOMAIN Descriptors[d].binds :
                                        IsAbsolute(Descriptors[d].binds[j])}}

\* the install in slot s has completed without an error
Installed(s) ==
    /\ ops[s].op = "install"
    /\ ops[s].pc = "done"
    /\ ops[s].cb_err = NoError

\* C6: after a successful install of a descriptor with binds (a repeated
\* install of the same descriptor included) every absolute bind path has its
\* host directory and its host file under the bind root, and the configuration
\* given to create_container has one bind-mount entry per absolute bind path.
C6_BindsProvisioned ==
    \A s \in Slots :
        (Installed(s) /\ Descriptors[ops[s].desc].has_binds) =>
            \A b \in AbsoluteBinds(ops[s].desc) :
                LET host == binds_path(ops[s]) \o b
                IN  /\ substring0(host, lastIndexOf(host, "/")) \in dirs
                    /\ host \in DOMAIN files
                    /\ Cardinality(EntriesFor(containers[ops[s].name].Config, b)) = 1

\* the step in which the filesystem call `call` of slot s fails
FsFailure(s, call) ==
    \/ call = "mkdirp" /\ \E fail \in BOOLEAN :
            MkdirpDone(s, fail) /\ (fail \/ MkdirpBlocked(full_path(ops[s])))
    \/ call = "open" /\ OpenDone(s, TRUE)
    \/ call = "writeFile" /\ \E fail \in BOOLEAN :
            WriteDone(s, fail) /\ (fail \/ WriteRefused(full_name(ops[s])))

\* the calls of an operation that belong to pull-and-create
PullCreateCalls == {"pull", "followProgress", "createContainer", "listImages",
                    "listContainers"}

\* C7: an I/O failure while provisioning a bind (mkdirp fails, the existence
\* check fails with an error other than ENOENT, the write of the empty file
\* fails) aborts the install: the callback receives that error, once; no
\* further bind is processed and neither pull nor create is invoked; what
\* earlier binds created stays in place.  An operation that has called back
\* takes no further step.
C7_BindFailureAborts ==
    [][/\ \A s \in Slots, call \in {"mkdirp", "open", "writeFile"} :
            FsFailure(s, call) =>
                /\ ops'[s].pc = "done"
                /\ ops'[s].cb_count = 1
                /\ ops'[s].cb_err = ErrFs(call)
                /\ ops'[s].trace = ops[s].trace
                /\ ops'[s].count = ops[s].count
                /\ \A i \in DOMAIN ops'[s].trace : ops'[s].trace[i] \notin PullCreateCalls
                /\ ops'[s].made \subseteq (dirs' \cup DOMAIN files')
                /\ dirs' = dirs /\ files' = files
                /\ containers' = containers /\ images' = images
       /\ \A s \in Slots :
            (ops[s].pc = "done" /\ Acts(s)) =>
                (ops'[s].cb_count + Len(ops'[s].trace) <= 1 \/ ops'[s].pc = "done")
      ]_vars

\* C7 witness: the write for the second bind visited failed after the
\* directory and file of the first had been created; the install called back
\* once with that error and what it had made is still there
C7_Witness ==
    \E s \in Slots :
        /\ ops[s].op = "install"
        /\ ops[s].desc = 1
        /\ ops[s].pc = "done"
        /\ ops[s].cb_err = ErrFs("writeFile")
        /\ ops[s].cb_count = 1
        /\ ops[s].count = 0
        /\ <<"/","r","/","p","/","g">> \in ops[s].made
        /\ <<"/","r","/","p","/","g">> \in DOMAIN files
        /\ <<"/","r","/","p","/","d">> \in dirs

\* C8: _install creates the container only after the pull completed: when the
\* pull fails, at the request or when the stream finishes, the callback
\* receives the error and create_container is not called.
C8_CreateAfterPull ==
    [][\A s \in Slots :
            (PullDone(s, TRUE) \/ FollowDone(s, TRUE)) =>
                /\ ops'[s].pc = "done"
                /\ ops'[s].cb_err # NoError
                /\ \A i \in DOMAIN ops'[s].trace :
                        ops'[s].trace[i] # "createContainer"]_vars

\* C9: after a successful install of a descriptor with repo R (which may
\* carry a namespace prefix) and tag T, the container created and not started,
\* get_status(R) returns state 'stopped' and reports T (read here as: in its
\* version or in its tag field).
C9_StatusAfterInstall ==
    \A s \in Slots :
        Installed(s) =>
            LET R == Descriptors[ops[s].desc].repo
                T == TagFor(ops[s].desc, docker_version.Arch)
            IN  /\ get_status(R).state = "stopped"
                /\ (get_status(R).version = T \/ get_status(R).tag = T)

\* the step in which install hands the assembled configuration to _install
HandsOver(s) ==
    /\ ops[s].op = "install"
    /\ ops[s].pc # "pull"
    /\ ops'[s].pc = "pull"

\* the read-only mount of the volume at the bind root
RootMount(o) ==
    ToStr(o.volume.name) \o <<":">> \o ToStr(bind_props[o.bp].root) \o <<":","r","o">>

\* C10: the read-only mount of the resolved volume at the bind root is
\* appended exactly when a volume was resolved and this install's bind
\* provisioning added at least one bind-mount entry; entries the descriptor's
\* configuration held before the install do not count.
C10_RootMount ==
    [][\A s \in Slots :
            HandsOver(s) =>
                LET before == image_config[ops[s].desc].Binds
                    after  == image_config'[ops[s].desc].Binds
                IN  (after = Append(before, RootMount(ops'[s])))
                        <=> (/\ ops'[s].volume.found
                             /\ AbsoluteBinds(ops[s].desc) # {})]_vars

\* the calls of a complete update, in the order the code issues them
UpdateOrder == <<"inspect", "remove", "pull", "followProgress", "createContainer",
                 "listImages", "listContainers">>

\* C11: update(name) on an existing container issues inspect, remove, pull of
\* the inspected container's image reference and create with its
\* configuration, in this order, so that the container created has the image
\* reference and configuration of the one removed; when the inspect finds no
\* container the callback receives an error and nothing else is issued.
C11_UpdateRecreates ==
    [][\A s \in Slots :
        /\ ops'[s].op = "update" =>
                ops'[s].trace = SubSeq(UpdateOrder, 1, Len(ops'[s].trace))
        /\ (ops[s].op = "update" /\ RemoveDone(s, FALSE) /\ ~RemoveRefused(ops[s].name)) =>
                \* what was captured is what is removed, and its reference is pulled
                /\ ops[s].config = containers[ops[s].name].Config
                /\ ops[s].repo_tag = containers[ops[s].name].Image
                /\ ops'[s].repo_tag = ops[s].repo_tag
                /\ ops'[s].pc = "pull"
        /\ (ops[s].op = "update" /\ ops[s].pc \in {"pull", "follow"} /\ Acts(s)) =>
                \* the captured reference and configuration reach the create unchanged
                /\ ops'[s].config = ops[s].config
                /\ ops'[s].repo_tag = ops[s].repo_tag
        /\ (ops[s].op = "update" /\ CreateDone(s, FALSE) /\ ~CreateRefused(Cfg(ops[s]))) =>
                /\ ops[s].name \in DOMAIN containers'
                /\ containers'[ops[s].name].Config = ops[s].config
                /\ containers'[ops[s].name].Image = ops[s].repo_tag
        /\ (ops[s].op = "update" /\ InspectDone(s, FALSE)
                /\ ops[s].name \notin DOMAIN containers) =>
                /\ ops'[s].pc = "done"
                /\ ops'[s].cb_count = 1
                /\ ops'[s].cb_err # NoError
                /\ ops'[s].trace = <<"inspect">>
                /\ containers' = containers /\ images' = images]_vars

\* C11 witness: an update ran through all its calls and called back without
\* an error, and the container it recreated is in place
C11_Witness ==
    \E s \in Slots :
        /\ ops[s].op = "update"
        /\ ops[s].pc = "done"
        /\ ops[s].cb_err = NoError
        /\ ops[s].trace = UpdateOrder
        /\ ops[s].name \in DOMAIN containers
        /\ containers[ops[s].name].Config = ops[s].config

\* the step in which a daemon call of the uninstall in slot s fails
UninstallFailure(s) ==
    /\ ops[s].op = "uninstall"
    /\ \/ InspectDone(s, TRUE)
       \/ InspectDone(s, FALSE) /\ ops[s].name \notin DOMAIN containers
       \/ \E fail \in BOOLEAN : RemoveDone(s, fail) /\ (fail \/ RemoveRefused(ops[s].name))
       \/ \E fail \in BOOLEAN :
            RemoveImageDone(s, fail) /\ (fail \/ RemoveImageRefused(ops[s].repo_tag))
       \/ ListImagesDone(s, TRUE)
       \/ ListContainersDone(s, TRUE)

\* the calls an uninstall has issued (after the step)
Issued(s, call) == \E i \in DOMAIN ops'[s].trace : ops'[s].trace[i] = call

\* C12: in uninstall a failing step aborts the remaining ones and its error is
\* passed to the callback, once: no container found, nothing removed; the
\* container's removal failed, image kept and cache not refreshed; the image's
\* removal failed, cache not refreshed.  The image's removal is issued only in
\* the step in which the container has been removed.
C12_UninstallAborts ==
    [][\A s \in Slots :
        /\ UninstallFailure(s) =>
                /\ ops'[s].pc = "done"
                /\ ops'[s].cb_count = 1
                /\ ops'[s].cb_err # NoError
                /\ ops'[s].trace = ops[s].trace
                /\ UNCHANGED <<containers, images, installed, states>>
                /\ ops[s].pc = "inspect" =>
                        ~Issued(s, "remove") /\ ~Issued(s, "removeImage")
                /\ ops[s].pc = "remove" =>
                        ~Issued(s, "removeImage") /\ ~Issued(s, "listImages")
                /\ ops[s].pc = "remove_image" => ~Issued(s, "listImages")
        /\ ops'[s].op = "uninstall" =>
                /\ ops'[s].cb_count <= 1
                /\ (ops'[s].pc = "done") = (ops'[s].cb_count = 1)
        /\ (ops[s].op = "uninstall" /\ Acts(s) /\ ops'[s].pc = "remove_image") =>
                /\ ops[s].pc = "remove"
                /\ ops[s].name \in DOMAIN containers
                /\ ops[s].name \notin DOMAIN containers'
                /\ images' = images
        /\ (ops[s].op = "uninstall" /\ Acts(s) /\ images' # images) =>
                /\ ops[s].pc = "remove_image"
                /\ ops[s].name \notin DOMAIN containers]_vars

\* C12 witness: the image's removal failed after the container had been
\* removed; the uninstall called back once with that error, the image is still
\* there and the install record still lists the name
C12_Witness ==
    \E s \in Slots :
        /\ ops[s].op = "uninstall"
        /\ ops[s].pc = "done"
        /\ ops[s].cb_count = 1
        /\ ops[s].cb_err = ErrDaemon("removeImage")
        /\ ops[s].name \notin DOMAIN containers
        /\ \E i \in DOMAIN images : images[i] = ops[s].repo_tag
        /\ Truthy(Get(installed, ops[s].name))

\* the step in which the uninstall in slot s completes without an error:
\* container and image are removed and the full refresh has run
UninstallCompletes(s) ==
    /\ ops[s].op = "uninstall"
    /\ ListContainersDone(s, FALSE)

\* C13: when uninstall(name) completes successfully the name is absent from
\* the install record: get_status(name) reports 'not_installed' without a
\* tag, query_updates omits the name, and every other name that was recorded
\* and whose container still exists keeps its record.
C13_UninstallForgets ==
    [][\A s \in Slots :
        UninstallCompletes(s) =>
            LET name == ops[s].name
            IN  /\ ops'[s].cb_err = NoError
                /\ name \notin DOMAIN containers'
                /\ ~Truthy(Get(installed', name))
                /\ (get_status(name).state = "not_installed")'
                /\ (get_status(name).tag = Undefined)'
                /\ (get_status(name).version = Undefined)'
                /\ (query_updates(name) = <<>>)'
                /\ (name \notin DOMAIN query_updates(<<>>))'
                /\ ops'[s].cb_map = installed'
                /\ \A n \in DOMAIN installed :
                        (n # name /\ Truthy(installed[n]) /\ n \in DOMAIN containers')
                            => Get(installed', n) = installed[n]]_vars

\* C13 witness: an uninstall has completed without an error while another
\* name's container exists and that name is still recorded
C13_Witness ==
    \E s \in Slots :
        /\ ops[s].op = "uninstall"
        /\ ops[s].pc = "done"
        /\ ops[s].cb_err = NoError
        /\ ~Truthy(Get(installed, ops[s].name))
        /\ \E n \in DOMAIN containers : n # ops[s].name /\ Truthy(Get(installed, n))

\* the adapter's generic state vocabulary
Vocabulary == {"not_installed", "installed", "stopped", "running", "terminated"}

\* C14: in every reachable state and for every name (and for a call without a
\* name) the state get_status returns is one of 'not_installed', 'installed',
\* 'stopped', 'running', 'terminated': no other raw lifecycle string of the
\* daemon and no undefined value.
C14_StatusVocabulary ==
    \A n \in Names \cup { <<>> } : get_status(n).state \in Vocabulary

\* the state the reference mapping gives a cached raw state
ReferenceState(raw) ==
    CASE raw \in {"created", "exited"} -> "stopped"
      [] raw = "running"               -> "running"
      [] raw = "terminated"            -> "terminated"
      [] OTHER                         -> raw

\* C15: get_status(name) agrees with the reference mapping for every name and
\* every cache content: a name absent from the install record gives
\* 'not_installed' without version or tag, whatever states[name] holds; a
\* recorded name gives its recorded tag and 'stopped' for a cached 'created'
\* or 'exited', 'running' for 'running', 'terminated' for 'terminated'.
\* get_status changes neither the install record nor the state cache.
C15_StatusMapping ==
    [][\A s \in Slots, n \in StatusQueries :
        GetStatus(s, n) =>
            LET ret == ops'[s].ret
            IN  /\ UNCHANGED <<installed, states>>
                /\ n \notin DOMAIN installed =>
                        /\ ret.state = "not_installed"
                        /\ ret.version = Undefined
                        /\ ret.tag = Undefined
                /\ n \in DOMAIN installed =>
                        /\ ret.tag = installed[n]
                        /\ GetState(states, n) \in {"created", "exited", "running",
                                                    "terminated"}
                             => ret.state = ReferenceState(states[n])]_vars

\* the install in slot s provisions binds over what an earlier walk for the
\* same descriptor and root left: the configuration holds a second bind-mount
\* entry for every absolute bind
SecondRun(o, cfg) ==
    /\ o.op = "install"
    /\ AbsoluteBinds(o.desc) # {}
    /\ \A b \in AbsoluteBinds(o.desc) : Cardinality(EntriesFor(cfg, b)) >= 2

\* C16: bind provisioning is idempotent.  A walk that meets a directory and a
\* file already in place gets no error from them and goes on, issues no write
\* for the existing file, and no step changes the contents of an existing
\* file; a second walk for the same binds and root reaches the pull without
\* having written or created anything.
C16_BindsIdempotent ==
    [][/\ \A f \in DOMAIN files : f \in DOMAIN files' /\ files'[f] = files[f]
       /\ \A s \in Slots :
            /\ (MkdirpDone(s, FALSE) /\ Resolve(full_path(ops[s])) \in dirs) =>
                    ops'[s].pc = "open" /\ dirs' = dirs
            /\ (OpenDone(s, FALSE) /\ Lookup(full_name(ops[s])).found = "file") =>
                    /\ ops'[s].pc = "close"
                    /\ ops'[s].trace = Append(ops[s].trace, "close")
            /\ CloseDone(s) =>
                    /\ ops'[s].pc \in {"mkdirp", "pull"}
                    /\ ops'[s].cb_count = 0
                    /\ files' = files
            /\ (HandsOver(s) /\ SecondRun(ops'[s], image_config'[ops[s].desc])) =>
                    /\ ops'[s].made = {}
                    /\ \A i \in DOMAIN ops'[s].trace : ops'[s].trace[i] # "writeFile"
            /\ (SecondRun(ops[s], image_config[ops[s].desc]) /\ Acts(s)
                    /\ ops[s].pc \in {"mkdirp", "open", "close"}) =>
                    ops'[s].cb_err = NoError]_vars

\* C16 witness: the second install of descriptor 7 has walked its bind over
\* the directory and file the first one made: it closed the existing file,
\* wrote nothing and went on to pull and create
C16_Witness ==
    \E s \in Slots :
        /\ Installed(s)
        /\ ops[s].desc = 7
        /\ SecondRun(ops[s], image_config[7])
        /\ ops[s].made = {}
        /\ \E i \in DOMAIN ops[s].trace : ops[s].trace[i] = "close"
        /\ \A i \in DOMAIN ops[s].trace : ops[s].trace[i] # "writeFile"
        /\ files[<<"/","r","/","p","/","g">>] = <<>>

\* C17: construction invokes its callback exactly once: with 'Docker not
\* found' when the version call fails or returns no version, with 'Host OS
\* not supported' when the OS is not linux, in both cases leaving the daemon
\* version unset and issuing no listing; otherwise with the outcome of the
\* initial full discovery.
C17_Construction ==
    [][\A s \in Slots :
        /\ \A answer \in VersionAnswers :
            VersionDone(s, answer) =>
                IF answer.err \/ ~Truthy(answer.Version)
                THEN /\ ops'[s].pc = "done"
                     /\ ops'[s].cb_count = 1
                     /\ ops'[s].cb_err = ErrDockerMissing
                     /\ ops'[s].trace = <<"version">>
                     /\ docker_version' = NoVersion
                ELSE IF answer.Os # "linux"
                THEN /\ ops'[s].pc = "done"
                     /\ ops'[s].cb_count = 1
                     /\ ops'[s].cb_err = ErrHostOs(answer.Os)
                     /\ ops'[s].trace = <<"version">>
                     /\ docker_version' = NoVersion
                ELSE /\ docker_version' = answer
                     /\ ops'[s].pc = "list_images"
                     /\ ops'[s].scoped = FALSE
                     /\ ops'[s].cb_count = 0
        /\ ops'[s].op = "construct" =>
                /\ ops'[s].cb_count <= 1
                /\ (ops'[s].pc = "done") = (ops'[s].cb_count = 1)
                /\ ops'[s].trace = SubSeq(<<"version", "listImages", "listContainers">>,
                                          1, Len(ops'[s].trace))
        /\ (ops[s].op = "construct" /\ ListContainersDone(s, FALSE)) =>
                /\ ops'[s].cb_err = NoError
                /\ ops'[s].cb_map = installed'
        /\ (ops[s].op = "construct"
                /\ (ListImagesDone(s, TRUE) \/ ListContainersDone(s, TRUE))) =>
                /\ ops'[s].cb_err # NoError
                /\ installed' = installed]_vars

\* C17 witness: the daemon answered with a foreign OS; construction called
\* back once with 'Host OS not supported' and the daemon version is unset
C17_Witness ==
    \E s \in Slots :
        /\ ops[s].op = "construct"
        /\ ops[s].pc = "done"
        /\ ops[s].cb_count = 1
        /\ ops[s].cb_err = ErrHostOs("windows")
        /\ docker_version = NoVersion

\* the indices (as the code counts them, from 0) of a descriptor's absolute binds
AbsoluteIndices(d) ==
    {j - 1 : j \in {k \in DOMAIN Descriptors[d].binds : IsAbsolute(Descriptors[d].binds[k])}}

\* a filesystem call of the bind walk of the install is outstanding
InWalk(o) == o.op = "install" /\ o.pc \in {"mkdirp", "open", "write", "close"}

\* how often an operation has issued `call`
TimesIssued(o, call) == Cardinality({i \in DOMAIN o.trace : o.trace[i] = call})

\* C18: within one install the bind walk is sequential and exhaustive: it
\* starts at the last declared bind, goes to strictly smaller indices, passes
\* over nothing but non-absolute binds, and handles every absolute bind once
\* before the pull is issued; each step issues at most one filesystem call
\* and only when the previous one has answered; a directory or file already
\* in place does not stop it.
C18_WalkSequential ==
    [][\A s \in Slots :
        LET o == ops[s]
            n == ops'[s]
            d == n.desc
        IN  /\ (o.pc = "get_volume" /\ Acts(s) /\ InWalk(n)) =>
                    /\ n.pc = "mkdirp"
                    /\ n.count \in AbsoluteIndices(d)
                    /\ \A i \in AbsoluteIndices(d) : i <= n.count
            /\ (InWalk(o) /\ InWalk(n) /\ Acts(s)) =>
                    \/ /\ n.count = o.count
                       /\ <<o.pc, n.pc>> \in {<<"mkdirp", "open">>, <<"open", "write">>,
                                              <<"open", "close">>}
                    \/ /\ o.pc \in {"write", "close"}
                       /\ n.pc = "mkdirp"
                       /\ n.count < o.count
                       /\ n.count \in AbsoluteIndices(d)
                       /\ \A i \in AbsoluteIndices(d) : ~(n.count < i /\ i < o.count)
            /\ (InWalk(o) /\ Acts(s)) => Len(n.trace) <= Len(o.trace) + 1
            /\ HandsOver(s) =>
                    /\ o.pc \in {"get_volume", "write", "close"}
                    /\ o.pc = "get_volume" => AbsoluteIndices(d) = {}
                    /\ o.pc # "get_volume" => \A i \in AbsoluteIndices(d) : i >= o.count
                    /\ n.count = 0
                    /\ TimesIssued(n, "mkdirp") = Cardinality(AbsoluteIndices(d))
                    /\ TimesIssued(n, "open") = Cardinality(AbsoluteIndices(d))
                    /\ TimesIssued(n, "writeFile") + TimesIssued(n, "close")
                            = Cardinality(AbsoluteIndices(d))
            /\ (n.op = "install" /\ TimesIssued(n, "pull") > 0) =>
                    TimesIssued(n, "mkdirp") = Cardinality(AbsoluteIndices(d))
            /\ (InWalk(o) /\ MkdirpDone(s, FALSE) /\ ~MkdirpBlocked(full_path(o))) =>
                    n.pc = "open"
            /\ (InWalk(o) /\ OpenDone(s, FALSE)) => n.pc \in {"close", "write"}
            /\ (InWalk(o) /\ CloseDone(s)) => n.pc \in {"mkdirp", "pull"}]_vars

\* C18 witness: the install of descriptor 1 (two absolute binds) on a tree
\* that already held the file of the last bind has handled index 1, then
\* index 0, and only then pulled
C18_Witness ==
    \E s \in Slots :
        /\ Installed(s)
        /\ ops[s].desc = 1
        /\ ops[s].trace = <<"inspect", "mkdirp", "open", "close", "mkdirp", "open",
                            "writeFile", "pull", "followProgress", "createContainer",
                            "listImages", "listContainers">>

\* the binds of a descriptor that do not begin with '/'
RelativeBinds(d) ==
    {Descriptors[d].binds[j] : j \in {k \in DOMAIN Descriptors[d].binds :
            Descriptors[d].binds[k] = <<>> \/ Descriptors[d].binds[k][1] # "/"}}

\* the binds of a descriptor that begin with '/'
SlashBinds(d) ==
    {Descriptors[d].binds[j] : j \in DOMAIN Descriptors[d].binds} \ RelativeBinds(d)

\* the directories and the file the walk of operation o makes for bind b
PathsFor(o, b) ==
    LET host == binds_path(o) \o b
    IN  Ancestors(substring0(host, lastIndexOf(host, "/"))) \cup {host}

\* C19: a bind that does not begin with '/' is skipped silently wherever it
\* is declared, the last position included: nothing is created for it and no
\* bind-mount entry or volume is added for it, while every absolute bind of
\* the list is provisioned and the install goes on to pull and create and
\* calls back.
C19_RelativeBindsSkipped ==
    [][\A s \in Slots :
        LET o == ops[s]
            n == ops'[s]
            d == n.desc
        IN  /\ (n.op = "install" /\ d # 0 /\ RelativeBinds(d) # {}
                    /\ Descriptors[d].has_binds /\ n.bp # NoBindProps /\ InstallGuard(d)) =>
                    /\ n.pc \notin {"dropped", "threw"}
                    /\ n.pc = "done" => TimesIssued(n, "pull") = 1
                    /\ n.made \subseteq UNION {PathsFor(n, b) : b \in SlashBinds(d)}
                    /\ \A b \in RelativeBinds(d) :
                            /\ EntriesFor(image_config'[d], b) = {}
                            /\ b \notin image_config'[d].Volumes
                            /\ binds_path(n) \o b \notin DOMAIN files'
            /\ (HandsOver(s) /\ RelativeBinds(d) # {}) =>
                    \A b \in SlashBinds(d) :
                        /\ binds_path(n) \o b \in DOMAIN files'
                        /\ EntriesFor(image_config'[d], b) # {}
            /\ (o.op = "install" /\ RelativeBinds(o.desc) # {} /\ PullDone(s, FALSE)) =>
                    n.pc = "follow"
            /\ (o.op = "install" /\ RelativeBinds(o.desc) # {} /\ FollowDone(s, FALSE)) =>
                    n.pc = "create"]_vars

\* C19 witness: the install of descriptor 2, whose first and last declared
\* binds are relative, has completed: the absolute bind between them has its
\* file and its bind-mount entry, the container is created
C19_Witness ==
    \E s \in Slots :
        /\ Installed(s)
        /\ ops[s].desc = 2
        /\ <<"/","r","/","p","/","g">> \in ops[s].made
        /\ Cardinality(EntriesFor(containers[<<"b">>].Config, <<"/","g">>)) = 1
        /\ EntriesFor(containers[<<"b">>].Config, <<"r">>) = {}
        /\ EntriesFor(containers[<<"b">>].Config, <<"s">>) = {}

\* C20: terminate(name) invokes its callback exactly once.  Called while the
\* cached state of name is not 'running' it issues no stop and no inspect and
\* leaves the install record and the state cache as they are.  When it stops,
\* the cached state after the stop's inspect is 'terminated' if that inspect
\* left 'exited' in the cache, and otherwise what that inspect left.
C20_Terminate ==
    [][\A s \in Slots :
        LET o == ops[s]
            n == ops'[s]
        IN  /\ \A name \in LifeNames :
                Terminate(s, name) =>
                    IF GetState(states, name) # "running"
                    THEN /\ n.pc = "done"
                         /\ n.cb_count = 1
                         /\ n.trace = <<>>
                         /\ UNCHANGED <<installed, states, containers>>
                    ELSE /\ n.pc = "stop"
                         /\ n.cb_count = 0
                         /\ n.trace = <<"stop">>
                         /\ UNCHANGED <<installed, states>>
            /\ n.op = "terminate" =>
                    /\ n.cb_count <= 1
                    /\ (n.pc = "done") = (n.cb_count = 1)
                    /\ n.trace = SubSeq(<<"stop", "inspect">>, 1, Len(n.trace))
            /\ (o.op = "terminate" /\ o.pc = "stop" /\ Acts(s)) =>
                    n.pc = "stop_inspect" /\ UNCHANGED <<installed, states>>
            /\ \A fail \in BOOLEAN :
                (o.op = "terminate" /\ StopInspectDone(s, fail)) =>
                    LET left == IF ~fail /\ o.name \in DOMAIN containers
                                THEN containers[o.name].State
                                ELSE GetState(states, o.name)
                    IN  /\ n.pc = "done"
                        /\ GetState(states', o.name) =
                                IF left = "exited" THEN "terminated" ELSE left
                        /\ \A k \in DOMAIN states : k # o.name => states'[k] = states[k]
                        /\ installed' = installed]_vars

\* C20 witness: terminate was called for a running name and the daemon's stop
\* failed: the callback ran once and the cache holds 'running', the state the
\* inspect reported
C20_Witness ==
    \E s \in Slots :
        /\ ops[s].op = "terminate"
        /\ ops[s].pc = "done"
        /\ ops[s].cb_count = 1
        /\ ops[s].trace = <<"stop", "inspect">>
        /\ ops[s].name \in DOMAIN containers
        /\ containers[ops[s].name].State = "running"
        /\ GetState(states, ops[s].name) = "running"

\* C21: operations that run at once on different names leave each other's
\* cache entries alone: whatever the interleaving of the callbacks of an
\* install of a with an uninstall of b, once both have completed without an
\* error installed[a] holds a's tag and states[a] the daemon's state of a.
C21_DifferentNamesIndependent ==
    (/\ ops[1].op = "uninstall" /\ ops[1].pc = "done" /\ ops[1].cb_err = NoError
     /\ ops[2].op = "install" /\ ops[2].pc = "done" /\ ops[2].cb_err = NoError)
        => /\ Get(installed, <<"a">>) = TagFor(7, docker_version.Arch)
           /\ <<"a">> \in DOMAIN containers
           /\ GetState(states, <<"a">>) = containers[<<"a">>].State

\* no operation of the adapter is in flight
Quiescent == \A s \in Slots : Free(s)

\* C22: in every quiescent state, with operations issued one at a time and
\* the daemon changed through the adapter only, the install record matches
\* the daemon: installed[name] is set exactly when the daemon holds a
\* container of that name, also after an update whose pull or create failed
\* once the container was removed, and after an uninstall whose image removal
\* failed once the container was removed.
C22_RecordMatchesDaemon ==
    Quiescent =>
        \A n \in LifeNames : Truthy(Get(installed, n)) <=> n \in DOMAIN containers

====
